---- MODULE Spec2Model ----
(***************************************************************************)
(* A model of the laitos supervisor (src/launcher/supervisor.go): the      *)
(* CLI flag filter RemoveFromFlags, the daemon shedding sequence built by  *)
(* Supervisor.initialise, the launch parameters of the N-th attempt        *)
(* (Supervisor.GetLaunchParameters) and the supervision loop               *)
(* Supervisor.Start.                                                       *)
(*                                                                         *)
(* CLI tokens are strings, flag lists are sequences of tokens, daemon      *)
(* lists are sequences of daemon names.  Go slices are 0-based, TLA+       *)
(* sequences are 1-based: shedSequence[n-2] in Go is shedSequence[n-1]     *)
(* here.                                                                   *)
(***************************************************************************)
EXTENDS Integers, Sequences, FiniteSets, TLC

VARIABLES
    CLIFlags,               \* Supervisor.CLIFlags
    DaemonNames,            \* Supervisor.DaemonNames
    shedSequence,           \* Supervisor.shedSequence
    NotificationRecipients, \* Supervisor.NotificationRecipients
    MailClientConfigured,   \* what Supervisor.MailClient.IsConfigured() answers
    origFlags,              \* the CLIFlags the supervisor was constructed with
    pc,                     \* position of the caller / of Start
    paramChoice,            \* Start's local paramChoice
    lastAttemptTime,        \* Start's local lastAttemptTime
    now,                    \* time.Now().Unix()
    nthAttempt,             \* argument of the latest GetLaunchParameters call
    cliFlags,               \* flags returned by the latest GetLaunchParameters call
    daemonNames,            \* daemons returned by the latest GetLaunchParameters call
    err,                    \* outcome of the latest attempt of Start
    notified,               \* notifyFailure was called since the latest outcome
    slept,                  \* the inter-attempt sleep was taken since the latest outcome
    report,                 \* the latest mail handed to MailClient.Send
    sent,                   \* MailClient.Send was called since the latest outcome
    children,               \* main programs started by Start and still alive
    feedTrace,              \* the steps done on the latest main program's stdin
    flagsArg,               \* the flags of the latest RemoveFromFlags call
    condition,              \* the condition of the latest RemoveFromFlags call
    condTokens,             \* the flags a condition given as a set holds of
    ret,                    \* what the latest RemoveFromFlags call returned
    sampleFun,              \* what the function under AutoRestart returns, call by call
    sampleRound,            \* the calls AutoRestart has made of the function
    restartPc,              \* where AutoRestart is
    delaySec,               \* the delay before its next restart
    waited,                 \* the delays it has slept, in order
    EmergencyLockDown,      \* misc.EmergencyLockDown
    mainStdout,             \* the writer the main programs' stdout goes to
    mainStderr,             \* the writer the main programs' stderr goes to
    writes,                 \* the writes of the main programs so far, in order
    snapshot,               \* what notifyFailure last read from the two writers
    diagPc,                 \* where Start is, as far as the writers go
    diagAttempt,            \* the main programs started so far
    mainPrograms,           \* the main programs that are alive, by attempt
    Listener,               \* SMTPD.Listener
    listener,               \* the listener StartAndBlock has made
    smtpPc,                 \* where StartAndBlock is
    stops,                  \* the calls of SMTPD.Stop so far
    stoppedWhileListening,  \* Stop was called while StartAndBlock listened
    accepted,               \* the connections accepted so far
    servePc,                \* where ServeSMTP is
    rateLimitOK, numConversations, finishedNormally, finishReason,
    fromAddr, mailBody, toAddrs,    \* the locals of ServeSMTP
    processed               \* the calls of ProcessMail so far

vars == <<CLIFlags, DaemonNames, shedSequence, NotificationRecipients,
          MailClientConfigured, origFlags, pc, paramChoice, lastAttemptTime,
          now, nthAttempt, cliFlags, daemonNames, err, notified, slept, report,
          sent, children, feedTrace, flagsArg, condition, condTokens, ret,
          sampleFun, sampleRound, restartPc, delaySec, waited,
          EmergencyLockDown, mainStdout, mainStderr, writes, snapshot,
          diagPc, diagAttempt, mainPrograms, Listener, listener, smtpPc,
          stops, stoppedWhileListening, accepted, servePc, rateLimitOK,
          numConversations, finishedNormally, finishReason, fromAddr,
          mailBody, toAddrs, processed>>

config == <<CLIFlags, DaemonNames, shedSequence, NotificationRecipients,
            MailClientConfigured, origFlags>>

loopVars == <<paramChoice, lastAttemptTime, now, err, notified, slept, report,
              sent, children, feedTrace>>

\* the fields of the supervisor other than the shed ladder
configOutsideLadder == <<CLIFlags, DaemonNames, NotificationRecipients,
                         MailClientConfigured, origFlags>>

restartVars == <<sampleFun, sampleRound, restartPc, delaySec, waited,
                 EmergencyLockDown>>

diagVars ==
    <<mainStdout, mainStderr, writes, snapshot, diagPc, diagAttempt,
      mainPrograms>>

serveVars ==
    <<servePc, rateLimitOK, numConversations, finishedNormally, finishReason,
      fromAddr, mailBody, toAddrs>>

smtpVars ==
    <<Listener, listener, smtpPc, stops, stoppedWhileListening, accepted,
      servePc, rateLimitOK, numConversations, finishedNormally, finishReason,
      fromAddr, mailBody, toAddrs, processed>>

filterVars == <<flagsArg, condition, condTokens, ret>>

----------------------------------------------------------------------------
(* Program constants *)

ConfigFlagName == "config"
SupervisorFlagName == "supervisor"
DaemonsFlagName == "daemons"

DNSDName == "dnsd"
HTTPDName == "httpd"
InsecureHTTPDName == "insecurehttpd"
MaintenanceName == "maintenance"
PlainSocketName == "plainsocket"
SerialPortDaemonName == "serialport"
SimpleIPSvcName == "simpleipsvcd"
SMTPDName == "smtpd"
SNMPDName == "snmpd"
SOCKDName == "sockd"
TelegramName == "telegram"
AutoUnlockName == "autounlock"
PhoneHomeName == "phonehome"

FailureThresholdSec == 1200
StartAttemptIntervalSec == 10
MemoriseOutputCapacity == 4 * 1024
MaxConversationLength == 64

AllDaemons ==
    <<AutoUnlockName, DNSDName, HTTPDName, InsecureHTTPDName, MaintenanceName,
      PhoneHomeName, PlainSocketName, SerialPortDaemonName, SimpleIPSvcName,
      SMTPDName, SNMPDName, SOCKDName, TelegramName>>

\* ShedOrder with the auto-unlocking daemon put on the list
ShedOrderWithAutoUnlock ==
    <<MaintenanceName,
      SerialPortDaemonName, SimpleIPSvcName,
      SNMPDName, DNSDName,
      SOCKDName, SMTPDName, HTTPDName,
      InsecureHTTPDName, PlainSocketName, TelegramName, PhoneHomeName,
      AutoUnlockName>>

ShedOrder ==
    <<MaintenanceName,
      SerialPortDaemonName, SimpleIPSvcName,
      SNMPDName, DNSDName,
      SOCKDName, SMTPDName, HTTPDName,
      InsecureHTTPDName, PlainSocketName, TelegramName, PhoneHomeName>>

----------------------------------------------------------------------------
(* Bounds of the model *)

MaxFlagItems == 2   \* flags (each with its value) on the supervisor's command line
MaxDaemons == 3     \* daemons the user asked to start
MaxAttempt == 6     \* largest attempt index explored
MaxTime == 1300     \* the clock stops here
MaxChildren == 2    \* main programs alive at once
MaxTokens == 4      \* tokens of a flag list handed to RemoveFromFlags directly
MaxInvocations == 4 \* calls AutoRestart makes of the function
MaxWrites == 2      \* writes of main programs to their stdout and stderr
MaxLaunches == 2    \* main programs started while the writers are watched
MaxConns == 1       \* connections the SMTP daemon accepts
MaxStops == 1       \* calls of SMTPD.Stop

----------------------------------------------------------------------------
(* strings *)

HasPrefix(s, prefix) ==
    Len(s) >= Len(prefix) /\ SubSeq(s, 1, Len(prefix)) = prefix

Contains(s, c) == \E i \in 1..Len(s) : SubSeq(s, i, i) = c

RECURSIVE Join(_, _)
Join(elems, sep) ==
    IF Len(elems) = 0 THEN ""
    ELSE IF Len(elems) = 1 THEN elems[1]
    ELSE elems[1] \o sep \o Join(Tail(elems), sep)

Range(seq) == {seq[i] : i \in 1..Len(seq)}

\* copy(dst, src) of Go: min(len(dst), len(src)) elements are copied
GoCopy(dst, src) ==
    [i \in 1..Len(dst) |-> IF i <= Len(src) THEN src[i] ELSE dst[i]]

----------------------------------------------------------------------------
(* RemoveFromFlags *)

\* The three condition functions the supervisor passes to RemoveFromFlags.
Condition(cond, s) ==
    CASE cond = "daemons" -> HasPrefix(s, "-" \o DaemonsFlagName)
      [] cond = "supervisor" -> HasPrefix(s, "-" \o SupervisorFlagName)
      [] cond = "notconfig" -> ~HasPrefix(s, "-" \o ConfigFlagName)
      [] cond = "tokens" -> s \in condTokens

\* a token that is not a flag is kept whenever a value is expected
KeepValueIgnoringDeleted(deleted, connectNext) == connectNext

\* a token that is not a flag is kept only after a deleted joined flag
KeepValueOnlyAfterJoined(deleted, connectNext) == deleted /\ ~connectNext

\* a token that is not a flag is kept unless a flag was deleted before it
KeepValueUnlessDeleted(deleted, connectNext) == ~deleted

\* Whether a token that is not a flag is appended to the result.
KeepValue(deleted, connectNext) ==
    (~deleted /\ connectNext) \/ (deleted /\ ~connectNext)

\* The state (ret, connectNext, deleted) after the first n tokens.
RECURSIVE RemoveScan(_, _, _)
RemoveScan(cond, flags, n) ==
    IF n = 0 THEN [ret |-> <<>>, connectNext |-> FALSE, deleted |-> FALSE]
    ELSE LET prev == RemoveScan(cond, flags, n - 1)
             str == flags[n]
         IN IF HasPrefix(str, "-")
            THEN IF Condition(cond, str)
                 THEN [ret |-> prev.ret,
                       connectNext |-> ~Contains(str, "="),
                       deleted |-> TRUE]
                 ELSE [ret |-> Append(prev.ret, str),
                       connectNext |-> TRUE,
                       deleted |-> FALSE]
            ELSE IF KeepValue(prev.deleted, prev.connectNext)
                 THEN [prev EXCEPT !.ret = Append(@, str)]
                 ELSE prev

RemoveFromFlags(cond, flags) == RemoveScan(cond, flags, Len(flags)).ret

----------------------------------------------------------------------------
(* Supervisor.initialise *)

\* One round of the loop over ShedOrder: st is (remaining, seq, stopped).
\* a round that sheds the last daemon too
ShedRoundToTheLast(st, toShed) ==
    LET thisRound == SelectSeq(st.remaining, LAMBDA d : d # toShed)
        willShed == \E i \in 1..Len(st.remaining) : st.remaining[i] = toShed
    IN IF willShed
       THEN [remaining |-> thisRound,
             seq |-> Append(st.seq, thisRound),
             stopped |-> FALSE]
       ELSE st

\* a round that stops shedding when two daemons remain
ShedRoundStopAtTwo(st, toShed) ==
    IF st.stopped \/ Len(st.remaining) <= 2
    THEN [st EXCEPT !.stopped = TRUE]
    ELSE LET thisRound == SelectSeq(st.remaining, LAMBDA d : d # toShed)
             willShed == \E i \in 1..Len(st.remaining) : st.remaining[i] = toShed
         IN IF willShed
            THEN [remaining |-> thisRound,
                  seq |-> Append(st.seq, thisRound),
                  stopped |-> FALSE]
            ELSE st

ShedRound(st, toShed) ==
    IF st.stopped \/ Len(st.remaining) = 1
    THEN [st EXCEPT !.stopped = TRUE]
    ELSE LET thisRound == SelectSeq(st.remaining, LAMBDA d : d # toShed)
             willShed == \E i \in 1..Len(st.remaining) : st.remaining[i] = toShed
         IN IF willShed
            THEN [remaining |-> thisRound,
                  seq |-> Append(st.seq, thisRound),
                  stopped |-> FALSE]
            ELSE st

RECURSIVE ShedScan(_, _)
ShedScan(daemons, n) ==
    IF n = 0 THEN [remaining |-> daemons, seq |-> <<>>, stopped |-> FALSE]
    ELSE ShedRound(ShedScan(daemons, n - 1), ShedOrder[n])

BuildShedSequence(daemons) == ShedScan(daemons, Len(ShedOrder)).seq

\* an initialise that leaves the daemons flag among the flags
initialiseKeepingDaemonsFlag ==
    /\ CLIFlags' = CLIFlags
    /\ shedSequence' = BuildShedSequence(DaemonNames)
    /\ UNCHANGED <<DaemonNames, NotificationRecipients, MailClientConfigured,
                   origFlags>>

initialise ==
    /\ CLIFlags' = RemoveFromFlags("daemons", CLIFlags)
    /\ shedSequence' = BuildShedSequence(DaemonNames)
    /\ UNCHANGED <<DaemonNames, NotificationRecipients, MailClientConfigured,
                   origFlags>>

----------------------------------------------------------------------------
(* Supervisor.GetLaunchParameters *)

\* make([]string, n): n empty strings
MakeSlice(n) == [i \in 1..n |-> ""]

\* cliFlags = make([]string, len(sup.CLIFlags)); copy(cliFlags, sup.CLIFlags)
CopyOfCLIFlags == GoCopy(MakeSlice(Len(CLIFlags)), CLIFlags)

\* the copy into a slice made with length 0: nothing is copied
CopyIntoEmptySlice == GoCopy(MakeSlice(0), DaemonNames)

\* daemonNames = make([]string, len(sup.DaemonNames)); copy(daemonNames, sup.DaemonNames)
CopyOfDaemonNames == GoCopy(MakeSlice(Len(DaemonNames)), DaemonNames)

\* nthAttempt >= 0: the supervisor flag is removed ...
StripSupervisor(n, flags) ==
    IF n >= 0 THEN RemoveFromFlags("supervisor", flags) ELSE flags

\* ... and -supervisor=false is to be added
AddFlags(n) ==
    IF n >= 0 THEN <<"-" \o SupervisorFlagName \o "=false">> ELSE <<>>

\* the removal of all but -config one attempt late
EssentialOnlyFromSecond(n, flags) ==
    IF n >= 2 THEN RemoveFromFlags("notconfig", flags) ELSE flags

\* the removal of all but -config from the very first attempt
EssentialOnlyFromFirst(n, flags) ==
    IF n >= 0 THEN RemoveFromFlags("notconfig", flags) ELSE flags

\* nthAttempt >= 1: all but the essential flag (-config) are removed
EssentialOnly(n, flags) ==
    IF n >= 1 THEN RemoveFromFlags("notconfig", flags) ELSE flags

\* whether the attempt sheds daemons
ShedApplies(n) == n > 1 /\ n < Len(DaemonNames) + 1

\* the index one step behind: sup.shedSequence[nthAttempt-3]
ShedIndexBehind(n) == n - 2

\* daemonNames = sup.shedSequence[nthAttempt-2] (0-based in Go)
ShedIndex(n) == n - 1

\* a reset that applies from the first shedding attempt on
ResetAppliesWhileShedding(n) == n > 1

\* whether the attempt comes after the shedding
ResetApplies(n) == n > Len(DaemonNames) + 1

\* copy(cliFlags, sup.CLIFlags)
ResetFlags(flags) == GoCopy(flags, CLIFlags)

\* copy(daemonNames, sup.DaemonNames)
ResetDaemons(daemons) == GoCopy(daemons, DaemonNames)

GetLaunchParameters(n) ==
    LET flags2 == EssentialOnly(n, StripSupervisor(n, CopyOfCLIFlags))
        panics == ShedApplies(n) /\ ShedIndex(n) \notin 1..Len(shedSequence)
        daemons3 == IF ShedApplies(n) /\ ~panics
                    THEN shedSequence[ShedIndex(n)]
                    ELSE CopyOfDaemonNames
        flags4 == IF ResetApplies(n) THEN ResetFlags(flags2) ELSE flags2
        daemons4 == IF ResetApplies(n) THEN ResetDaemons(daemons3) ELSE daemons3
        \* daemonNames is the ladder's own entry once line 313 has run: a
        \* copy into it is a copy into the ladder
        ladder4 == IF ResetApplies(n) /\ ShedApplies(n) /\ ~panics
                   THEN [shedSequence EXCEPT ![ShedIndex(n)] = daemons4]
                   ELSE shedSequence
    IN [panicked |-> panics,
        shedSequence |-> ladder4,
        cliFlags |-> flags4 \o AddFlags(n)
                     \o <<"-" \o DaemonsFlagName, Join(daemons4, ",")>>,
        daemonNames |-> daemons4]

----------------------------------------------------------------------------
(* The supervisor as constructed by its caller *)

UnknownName == "webcam"   \* a daemon name the program does not know

DaemonUniverse == {AutoUnlockName, MaintenanceName, DNSDName, UnknownName}

\* sequences of at most n distinct members of S
RECURSIVE DistinctSeqs(_, _)
DistinctSeqs(S, n) ==
    IF n = 0 THEN {<<>>}
    ELSE LET shorter == DistinctSeqs(S, n - 1)
         IN shorter \cup
            {Append(p[1], p[2]) :
                p \in {p \in shorter \X S : p[2] \notin Range(p[1])}}

\* the flags a command line is made of, each with its value
FlagItems(daemons) ==
    { <<"-config", "cfg.json">>,
      <<"-config=cfg.json">>,
      <<"-supervisor=true">>,
      <<"-gomaxprocs", "8">>,
      <<"-disableconflicts">>,
      <<"-daemons", Join(daemons, ",")>> }

RECURSIVE Flatten(_)
Flatten(items) ==
    IF Len(items) = 0 THEN <<>> ELSE items[1] \o Flatten(Tail(items))

\* the daemon lists of at most n distinct names; the user names one at least
DaemonLists(n) == DistinctSeqs(DaemonUniverse, n) \ {<<>>}

FlagLists(daemons, n) ==
    {Flatten(q) : q \in DistinctSeqs(FlagItems(daemons), n)}

NoReport == [sent |-> FALSE]

\* the supervisor's derived state and the locals of its caller before Start
InitLocals ==
    /\ origFlags = CLIFlags
    /\ shedSequence = <<>>
    /\ pc = "new"
    /\ paramChoice = 0
    /\ lastAttemptTime = 0
    /\ now = 0
    /\ nthAttempt = -1
    /\ cliFlags = <<>>
    /\ daemonNames = <<>>
    /\ err = "none"
    /\ notified = FALSE
    /\ slept = FALSE
    /\ report = NoReport
    /\ sent = FALSE
    /\ children = 0
    /\ feedTrace = <<>>

\* the locals of ServeSMTP as they are declared
InitServe ==
    /\ servePc = "none"
    /\ rateLimitOK = TRUE
    /\ numConversations = 0
    /\ finishedNormally = FALSE
    /\ finishReason = ""
    /\ fromAddr = ""
    /\ mailBody = ""
    /\ toAddrs = <<>>

\* the SMTP daemon is not in use
InitSMTPIdle ==
    /\ Listener = "nil"
    /\ listener = "none"
    /\ smtpPc = "idle"
    /\ stops = 0
    /\ stoppedWhileListening = FALSE
    /\ accepted = 0
    /\ processed = <<>>
    /\ InitServe

NoSnapshot == [taken |-> FALSE]

\* the writers are not in use
InitDiagIdle ==
    /\ mainStdout = <<>>
    /\ mainStderr = <<>>
    /\ writes = <<>>
    /\ snapshot = NoSnapshot
    /\ diagPc = "idle"
    /\ diagAttempt = 0
    /\ mainPrograms = {}

\* AutoRestart is not in use
InitRestartIdle ==
    /\ sampleFun = <<>>
    /\ sampleRound = 0
    /\ restartPc = "idle"
    /\ delaySec = 0
    /\ waited = <<>>
    /\ EmergencyLockDown = FALSE

\* no call of RemoveFromFlags by the caller yet
InitFilter ==
    /\ flagsArg = <<>>
    /\ condition = "none"
    /\ condTokens = {}
    /\ ret = <<>>

----------------------------------------------------------------------------
(* SpecParams: a caller that initialises the supervisor and then asks for  *)
(* the launch parameters of attempts 0..MaxAttempt, in any order.          *)

AllFlagLists(daemons) == FlagLists(daemons, MaxFlagItems)

InitParams ==
    /\ DaemonNames \in DaemonLists(MaxDaemons)
    /\ CLIFlags \in AllFlagLists(DaemonNames)
    /\ MailClientConfigured = FALSE
    /\ NotificationRecipients = <<>>
    /\ InitLocals
    /\ InitFilter
    /\ InitDiagIdle
    /\ InitSMTPIdle
    /\ InitRestartIdle

Initialise ==
    /\ pc = "new"
    /\ initialise
    /\ pc' = "initialised"
    /\ UNCHANGED <<nthAttempt, cliFlags, daemonNames>>
    /\ UNCHANGED loopVars
    /\ UNCHANGED filterVars
    /\ UNCHANGED diagVars
    /\ UNCHANGED smtpVars
    /\ UNCHANGED restartVars

CallGetLaunchParameters(n) ==
    /\ pc \in {"initialised", "returned"}
    /\ LET r == GetLaunchParameters(n)
       IN /\ nthAttempt' = n
          /\ pc' = IF r.panicked THEN "panicked" ELSE "returned"
          /\ cliFlags' = IF r.panicked THEN cliFlags ELSE r.cliFlags
          /\ daemonNames' = IF r.panicked THEN daemonNames ELSE r.daemonNames
          /\ shedSequence' = r.shedSequence
    /\ UNCHANGED configOutsideLadder
    /\ UNCHANGED loopVars
    /\ UNCHANGED filterVars
    /\ UNCHANGED diagVars
    /\ UNCHANGED smtpVars
    /\ UNCHANGED restartVars

NextParams ==
    \/ Initialise
    \/ \E n \in 0..MaxAttempt : CallGetLaunchParameters(n)

SpecParams == InitParams /\ [][NextParams]_vars

----------------------------------------------------------------------------
(* Spec: Supervisor.Start, the supervision loop.                           *)

\* what FeedDecryptionPasswordToStdinAndStart can return: nil, or the error
\* of cmd.StdinPipe, cmd.Start, stdin.Write or stdin.Close
FeedResults == {"nil", "StdinPipe", "Start", "Write", "Close"}

\* how long, in seconds, the main program runs before mainProgram.Wait returns
RunSecs == {0, FailureThresholdSec - 2, FailureThresholdSec - 1}

\* the supervisors the loop is explored with
LoopFlagLists(daemons) ==
    { <<"-config", "cfg.json", "-daemons", Join(daemons, ",")>>,
      <<"-gomaxprocs", "8", "-supervisor=true", "-config", "cfg.json",
        "-daemons", Join(daemons, ",")>> }

LoopDaemonLists ==
    { <<AutoUnlockName>>,
      <<DNSDName, MaintenanceName, AutoUnlockName>>,
      <<AutoUnlockName, UnknownName>> }

MailConfigs ==
    { <<TRUE, <<"admin@example.com">> >>, <<TRUE, <<>> >>,
      <<FALSE, <<"admin@example.com">> >> }

Init ==
    /\ DaemonNames \in LoopDaemonLists
    /\ CLIFlags \in LoopFlagLists(DaemonNames)
    /\ \E m \in MailConfigs :
          /\ MailClientConfigured = m[1]
          /\ NotificationRecipients = m[2]
    /\ InitLocals
    /\ InitFilter
    /\ InitDiagIdle
    /\ InitSMTPIdle
    /\ InitRestartIdle

\* Start up to the loop: initialise, the two locals, os.Executable
StartBegin(executableErr) ==
    /\ pc = "new"
    /\ initialise
    /\ paramChoice' = 0
    /\ lastAttemptTime' = now
    /\ pc' = IF executableErr THEN "aborted" ELSE "loop"
    /\ UNCHANGED <<now, nthAttempt, cliFlags, daemonNames, err, notified, slept,
                   report, sent, children, feedTrace>>
    /\ UNCHANGED filterVars
    /\ UNCHANGED diagVars
    /\ UNCHANGED smtpVars
    /\ UNCHANGED restartVars

\* misc.ProgramDataDecryptionPassword
ProgramDataDecryptionPassword == "secret"

\* the password with no line break after it
SecretLineWithoutBreak == ProgramDataDecryptionPassword

\* what FeedDecryptionPasswordToStdinAndStart writes to the standard input
SecretLine == ProgramDataDecryptionPassword \o "\n"

\* the steps of FeedDecryptionPasswordToStdinAndStart, in its order
AllFeedSteps ==
    << [op |-> "StdinPipe", data |-> ""],
       [op |-> "Start", data |-> ""],
       [op |-> "Write", data |-> SecretLine],
       [op |-> "Close", data |-> ""] >>

\* the steps done when FeedDecryptionPasswordToStdinAndStart returns feed:
\* all of them for nil, those before the failed one for an error
FeedSteps(feed) ==
    IF feed = "nil" THEN AllFeedSteps
    ELSE LET failed == CHOOSE i \in 1..Len(AllFeedSteps) :
                           AllFeedSteps[i].op = feed
         IN SubSeq(AllFeedSteps, 1, failed - 1)

\* the last-attempt time written at every launch, failed ones too
AttemptTimeAtEveryLaunch(feed) == now

\* lastAttemptTime when FeedDecryptionPasswordToStdinAndStart has returned
AttemptTimeAfterFeed(feed) == IF feed = "nil" THEN now ELSE lastAttemptTime

\* whether cmd.Start had started the main program when
\* FeedDecryptionPasswordToStdinAndStart returned feed
StartedChild(feed) == feed \in {"nil", "Write", "Close"}

\* The head of an iteration: GetLaunchParameters, exec.Command and
\* FeedDecryptionPasswordToStdinAndStart.
Launch(feed) ==
    /\ pc = "loop"
    /\ StartedChild(feed) => children < MaxChildren
    /\ LET r == GetLaunchParameters(paramChoice)
       IN /\ shedSequence' = r.shedSequence
          /\ IF r.panicked
             THEN /\ pc' = "panicked"
                  /\ nthAttempt' = paramChoice
                  /\ UNCHANGED <<cliFlags, daemonNames, err, lastAttemptTime,
                                 notified, slept, sent, children,
                                 feedTrace>>
             ELSE /\ nthAttempt' = paramChoice
                  /\ cliFlags' = r.cliFlags
                  /\ daemonNames' = r.daemonNames
                  /\ notified' = FALSE
                  /\ slept' = FALSE
                  /\ sent' = FALSE
                  /\ children' = IF StartedChild(feed) THEN children + 1
                                 ELSE children
                  /\ feedTrace' = FeedSteps(feed)
                  /\ lastAttemptTime' = AttemptTimeAfterFeed(feed)
                  /\ IF feed # "nil"
                     THEN /\ err' = feed
                          /\ pc' = "failed"
                     ELSE /\ err' = "running"
                          /\ pc' = "wait"
    /\ UNCHANGED <<paramChoice, now, report>>
    /\ UNCHANGED configOutsideLadder
    /\ UNCHANGED filterVars
    /\ UNCHANGED diagVars
    /\ UNCHANGED smtpVars
    /\ UNCHANGED restartVars

\* every return of mainProgram.Wait taken for a crash
AfterWaitAlwaysFailed(waitErr) == "failed"

\* where Start goes when mainProgram.Wait has returned waitErr
AfterWait(waitErr) == IF waitErr # "nil" THEN "failed" ELSE "loop"

\* mainProgram.Wait returns after the main program ran for secs seconds.
ChildExit(secs, waitErr) ==
    /\ pc = "wait"
    /\ now + secs <= MaxTime
    /\ now' = now + secs
    /\ err' = waitErr
    /\ pc' = AfterWait(waitErr)
    /\ children' = children - 1
    /\ UNCHANGED <<paramChoice, lastAttemptTime, nthAttempt, cliFlags,
                   daemonNames, notified, slept, report, sent, feedTrace>>
    /\ UNCHANGED config
    /\ UNCHANGED filterVars
    /\ UNCHANGED diagVars
    /\ UNCHANGED smtpVars
    /\ UNCHANGED restartVars

\* A main program that Start does not wait for (it was started, and the
\* password could not be fed to it) exits on its own.
OrphanExit ==
    /\ pc \in {"loop", "wait", "failed", "escalate"}
    /\ children > (IF pc = "wait" THEN 1 ELSE 0)
    /\ children' = children - 1
    /\ UNCHANGED <<pc, paramChoice, lastAttemptTime, now, nthAttempt, cliFlags,
                   daemonNames, err, notified, slept, report, sent,
                   feedTrace>>
    /\ UNCHANGED config
    /\ UNCHANGED filterVars
    /\ UNCHANGED diagVars
    /\ UNCHANGED smtpVars
    /\ UNCHANGED restartVars

\* a notification that needs either the mail client or the recipients
WillNotifyEither ==
    MailClientConfigured \/ Len(NotificationRecipients) > 0

\* whether notifyFailure goes on to send the mail
WillNotify ==
    MailClientConfigured /\ Len(NotificationRecipients) > 0

\* the flags of the supervisor itself in place of those of the attempt
NotifiedFlagsOfSupervisor == CLIFlags

\* the flags Start hands to notifyFailure
NotifiedFlags == cliFlags

\* a send error that ends Start
AfterNotifyAbortOnSendErr(sendFailed) ==
    IF sendFailed THEN "aborted" ELSE "escalate"

\* where Start goes when notifyFailure is over, sendFailed telling whether
\* MailClient.Send was called and returned an error
AfterNotify(sendFailed) == "escalate"

\* The failure path up to the notification: Sleep(1 second), notifyFailure.
NotifyFailure(sendErr) ==
    /\ pc = "failed"
    /\ now + 1 <= MaxTime
    /\ now' = now + 1
    /\ notified' = TRUE
    /\ report' = IF WillNotify
                 THEN [sent |-> TRUE, cliFlags |-> NotifiedFlags,
                       launchErr |-> err, sendErr |-> sendErr]
                 ELSE report
    /\ sent' = WillNotify
    /\ pc' = AfterNotify(WillNotify /\ sendErr)
    /\ UNCHANGED <<paramChoice, lastAttemptTime, nthAttempt, cliFlags,
                   daemonNames, err, slept, children, feedTrace>>
    /\ UNCHANGED config
    /\ UNCHANGED filterVars
    /\ UNCHANGED diagVars
    /\ UNCHANGED smtpVars
    /\ UNCHANGED restartVars

\* the check of the failure interval with <= for <
EscalatedAtThreshold ==
    IF now - lastAttemptTime <= FailureThresholdSec
    THEN paramChoice + 1
    ELSE paramChoice

\* an index that goes back to the first attempt after a long run
EscalatedOrReset ==
    IF now - lastAttemptTime < FailureThresholdSec THEN paramChoice + 1 ELSE 0

\* an index that goes up by two
EscalatedByTwo ==
    IF now - lastAttemptTime < FailureThresholdSec THEN paramChoice + 2
    ELSE paramChoice

\* paramChoice after the check of the failure interval
Escalated ==
    IF now - lastAttemptTime < FailureThresholdSec
    THEN paramChoice + 1
    ELSE paramChoice

\* a sleep that is taken only when the attempt index was incremented
InterAttemptSleepWhenEscalated ==
    IF Escalated > paramChoice THEN StartAttemptIntervalSec ELSE 0

\* the seconds Start sleeps at the end of the failure path
InterAttemptSleep == StartAttemptIntervalSec

\* The rest of the failure path: the check of the failure interval,
\* Sleep(StartAttemptIntervalSec), continue.
Escalate ==
    /\ pc = "escalate"
    /\ Escalated <= MaxAttempt
    /\ now + InterAttemptSleep <= MaxTime
    /\ paramChoice' = Escalated
    /\ now' = now + InterAttemptSleep
    /\ slept' = (InterAttemptSleep > 0)
    /\ pc' = "loop"
    /\ UNCHANGED <<lastAttemptTime, nthAttempt, cliFlags, daemonNames, err,
                   notified, report, sent, children, feedTrace>>
    /\ UNCHANGED config
    /\ UNCHANGED filterVars
    /\ UNCHANGED diagVars
    /\ UNCHANGED smtpVars
    /\ UNCHANGED restartVars

Next ==
    \/ \E executableErr \in BOOLEAN : StartBegin(executableErr)
    \/ \E feed \in FeedResults : Launch(feed)
    \/ \E secs \in RunSecs, waitErr \in {"nil", "Wait"} : ChildExit(secs, waitErr)
    \/ \E sendErr \in BOOLEAN : NotifyFailure(sendErr)
    \/ Escalate
    \/ OrphanExit

Spec == Init /\ [][Next]_vars

----------------------------------------------------------------------------
(* SpecFlags: a caller of RemoveFromFlags with any flag list of up to      *)
(* MaxTokens tokens and any condition: the three conditions the supervisor *)
(* uses, and every condition that holds of a set of flags.                 *)

FlagTokens == {"-config", "-config=a", "-daemons", "-daemons=b"}

ValueTokens == {"v"}

RECURSIVE TokenLists(_)
TokenLists(n) ==
    IF n = 0 THEN {<<>>}
    ELSE LET shorter == TokenLists(n - 1)
         IN shorter \cup {Append(p[1], p[2]) :
                              p \in shorter \X (FlagTokens \cup ValueTokens)}

Conditions == {"daemons", "supervisor", "notconfig", "tokens"}

InitFlags ==
    /\ flagsArg \in TokenLists(MaxTokens)
    /\ condition \in Conditions
    /\ condTokens \in (IF condition = "tokens" THEN SUBSET FlagTokens ELSE {{}})
    /\ ret = <<>>
    /\ DaemonNames = <<>>
    /\ CLIFlags = <<>>
    /\ MailClientConfigured = FALSE
    /\ NotificationRecipients = <<>>
    /\ InitLocals
    /\ InitRestartIdle
    /\ InitDiagIdle
    /\ InitSMTPIdle

CallRemoveFromFlags ==
    /\ pc = "new"
    /\ ret' = RemoveFromFlags(condition, flagsArg)
    /\ pc' = "filtered"
    /\ UNCHANGED <<flagsArg, condition, condTokens>>
    /\ UNCHANGED <<nthAttempt, cliFlags, daemonNames>>
    /\ UNCHANGED config
    /\ UNCHANGED loopVars
    /\ UNCHANGED restartVars
    /\ UNCHANGED diagVars
    /\ UNCHANGED smtpVars

NextFlags == CallRemoveFromFlags

SpecFlags == InitFlags /\ [][NextFlags]_vars

----------------------------------------------------------------------------
(* SpecRestart: AutoRestart(logger, name, fun) of package main, as        *)
(* TestAutoRestart and TestAutoRestartDuringLockDown (src/main_test.go)   *)
(* drive it: a function that returns an error or nil, call by call, and   *)
(* a test that may turn on misc.EmergencyLockDown at any time.            *)

RestartDelayStepSec == 10

\* a delay that stays as it is
NextDelaySame(d) == d

\* the delay before the restart after the next one
NextDelay(d) == d + RestartDelayStepSec

\* a restart that pays no attention to the lock-down
MayInvokeAlways == TRUE

\* whether AutoRestart goes on to call the function
MayInvoke == ~EmergencyLockDown

\* the functions of the tests: sampleFun returns errors and then nil, or
\* errors only
SampleFuns == [1..MaxInvocations -> {"err", "nil"}]

InitRestart ==
    /\ sampleFun \in SampleFuns
    /\ sampleRound = 0
    /\ restartPc = "head"
    /\ delaySec = 0
    /\ waited = <<>>
    /\ EmergencyLockDown = FALSE
    /\ DaemonNames = <<>>
    /\ CLIFlags = <<>>
    /\ MailClientConfigured = FALSE
    /\ NotificationRecipients = <<>>
    /\ InitLocals
    /\ InitFilter
    /\ InitDiagIdle
    /\ InitSMTPIdle

\* what AutoRestart leaves alone
RestartFrame ==
    /\ UNCHANGED <<pc, nthAttempt, cliFlags, daemonNames>>
    /\ UNCHANGED config
    /\ UNCHANGED loopVars
    /\ UNCHANGED filterVars
    /\ UNCHANGED diagVars
    /\ UNCHANGED smtpVars

\* AutoRestart calls the function; nil ends AutoRestart
Invoke ==
    /\ restartPc = "head"
    /\ MayInvoke
    /\ sampleRound < MaxInvocations
    /\ sampleRound' = sampleRound + 1
    /\ restartPc' = IF sampleFun[sampleRound + 1] = "nil" THEN "returned"
                    ELSE "sleep"
    /\ UNCHANGED <<sampleFun, delaySec, waited, EmergencyLockDown>>
    /\ RestartFrame

\* AutoRestart returns because of the lock-down
QuitOnLockDown ==
    /\ restartPc = "head"
    /\ ~MayInvoke
    /\ restartPc' = "returned"
    /\ UNCHANGED <<sampleFun, sampleRound, delaySec, waited, EmergencyLockDown>>
    /\ RestartFrame

\* AutoRestart sleeps the delay and makes the next one longer
SleepBeforeRestart ==
    /\ restartPc = "sleep"
    /\ waited' = Append(waited, delaySec)
    /\ delaySec' = NextDelay(delaySec)
    /\ restartPc' = "head"
    /\ UNCHANGED <<sampleFun, sampleRound, EmergencyLockDown>>
    /\ RestartFrame

\* the test turns on the emergency lock-down
TurnOnLockDown ==
    /\ restartPc \in {"head", "sleep"}
    /\ ~EmergencyLockDown
    /\ EmergencyLockDown' = TRUE
    /\ UNCHANGED <<sampleFun, sampleRound, restartPc, delaySec, waited>>
    /\ RestartFrame

NextRestart ==
    \/ Invoke
    \/ QuitOnLockDown
    \/ SleepBeforeRestart
    \/ TurnOnLockDown

SpecRestart == InitRestart /\ [][NextRestart]_vars

(***************************************************************************)
(* The two writers of the supervisor: lalog.ByteLogWriter, as Start uses   *)
(* it.  A byte is named by its place among all bytes the main programs     *)
(* write, so that the order and the origin of every byte can be told, and  *)
(* a string of bytes is a sequence of runs <<lo, hi>>, each standing for   *)
(* the bytes lo, lo + 1, ..., hi.                                          *)
(***************************************************************************)

RunLen(r) == r[2] - r[1] + 1

RECURSIVE NumBytes(_)
\* len(s)
NumBytes(s) ==
    IF s = <<>> THEN 0 ELSE RunLen(Head(s)) + NumBytes(Tail(s))

RECURSIVE TakeBytes(_, _)
\* s[:n]
TakeBytes(s, n) ==
    IF n <= 0 \/ s = <<>> THEN <<>>
    ELSE IF RunLen(Head(s)) <= n
         THEN <<Head(s)>> \o TakeBytes(Tail(s), n - RunLen(Head(s)))
         ELSE << <<Head(s)[1], Head(s)[1] + n - 1>> >>

RECURSIVE DropBytes(_, _)
\* s[n:]
DropBytes(s, n) ==
    IF n <= 0 \/ s = <<>> THEN s
    ELSE IF RunLen(Head(s)) <= n
         THEN DropBytes(Tail(s), n - RunLen(Head(s)))
         ELSE << <<Head(s)[1] + n, Head(s)[2]>> >> \o Tail(s)

\* lalog.NewByteLogWriter(destination, MaxBytes): nothing retained, nothing
\* forwarded yet
NewByteLogWriter(maxBytes) ==
    [MaxBytes |-> maxBytes, latest |-> <<>>, destination |-> <<>>]

\* the first n elements of s, or all of s when it has fewer
FirstBytes(s, n) ==
    IF NumBytes(s) <= n THEN s ELSE TakeBytes(s, n)

\* the last n elements of s, or all of s when it has fewer
LastBytes(s, n) ==
    IF NumBytes(s) <= n THEN s ELSE DropBytes(s, NumBytes(s) - n)

\* ByteLogWriter.Write(p): retain the most recent MaxBytes bytes, forward p
Write(w, p) ==
    [w EXCEPT !.latest = LastBytes(w.latest \o p, w.MaxBytes),
              !.destination = w.destination \o p]

\* ByteLogWriter.Retrieve(false): the retained bytes
Retrieve(w) == w.latest

\* a read that empties the writer
AfterRetrieveCleared(w) == [w EXCEPT !.latest = <<>>]

\* the writer after Retrieve: as it was
AfterRetrieve(w) == w

\* a new writer for every main program
WriterRenewedAtLaunch(w) == NewByteLogWriter(w.MaxBytes)

\* the writer exec.Command's main program writes to: the supervisor's own
WriterAtLaunch(w) == w

\* the sizes of the writes of a main program
ChunkSizes == {1, MemoriseOutputCapacity + 1}

Streams == {"stdout", "stderr"}

\* the name of the last byte written so far
LastByte ==
    IF writes = <<>> THEN 0
    ELSE writes[Len(writes)].p[1][2]

InitDiag ==
    /\ mainStdout = <<>>
    /\ mainStderr = <<>>
    /\ writes = <<>>
    /\ snapshot = NoSnapshot
    /\ diagPc = "start"
    /\ diagAttempt = 0
    /\ mainPrograms = {}
    /\ DaemonNames = <<DNSDName>>
    /\ CLIFlags = <<>>
    /\ \E m \in MailConfigs :
          /\ MailClientConfigured = m[1]
          /\ NotificationRecipients = m[2]
    /\ InitLocals
    /\ InitFilter
    /\ InitRestartIdle
    /\ InitSMTPIdle

\* what the writers' part of Start leaves alone
DiagFrame ==
    /\ UNCHANGED <<pc, nthAttempt, cliFlags, daemonNames>>
    /\ UNCHANGED config
    /\ UNCHANGED loopVars
    /\ UNCHANGED filterVars
    /\ UNCHANGED restartVars
    /\ UNCHANGED smtpVars

\* initialise: the two writers are made
DiagInitialise ==
    /\ diagPc = "start"
    /\ mainStdout' = NewByteLogWriter(MemoriseOutputCapacity)
    /\ mainStderr' = NewByteLogWriter(MemoriseOutputCapacity)
    /\ diagPc' = "loop"
    /\ UNCHANGED <<writes, snapshot, diagAttempt, mainPrograms>>
    /\ DiagFrame

\* The head of an iteration: the main program is given the two writers and
\* is started.
DiagLaunch(feed) ==
    /\ diagPc = "loop"
    /\ diagAttempt < MaxLaunches
    /\ diagAttempt' = diagAttempt + 1
    /\ mainStdout' = WriterAtLaunch(mainStdout)
    /\ mainStderr' = WriterAtLaunch(mainStderr)
    /\ mainPrograms' = IF StartedChild(feed)
                       THEN mainPrograms \cup {diagAttempt + 1}
                       ELSE mainPrograms
    /\ diagPc' = IF feed # "nil" THEN "failed" ELSE "wait"
    /\ UNCHANGED <<writes, snapshot>>
    /\ DiagFrame

\* a main program that is alive writes n bytes to its stdout or stderr
ChildWrite(attempt, stream, n) ==
    /\ attempt \in mainPrograms
    /\ Len(writes) < MaxWrites
    /\ LET p == << <<LastByte + 1, LastByte + n>> >>
       IN /\ writes' = Append(writes,
                         [stream |-> stream, p |-> p, attempt |-> attempt])
          /\ IF stream = "stdout"
             THEN /\ mainStdout' = Write(mainStdout, p)
                  /\ UNCHANGED mainStderr
             ELSE /\ mainStderr' = Write(mainStderr, p)
                  /\ UNCHANGED mainStdout
    /\ UNCHANGED <<snapshot, diagPc, diagAttempt, mainPrograms>>
    /\ DiagFrame

\* mainProgram.Wait returns
DiagChildExit(waitErr) ==
    /\ diagPc = "wait"
    /\ mainPrograms' = mainPrograms \ {diagAttempt}
    /\ diagPc' = AfterWait(waitErr)
    /\ UNCHANGED <<mainStdout, mainStderr, writes, snapshot, diagAttempt>>
    /\ DiagFrame

\* a main program that Start does not wait for exits on its own
DiagOrphanExit(attempt) ==
    /\ attempt \in mainPrograms
    /\ ~(diagPc = "wait" /\ attempt = diagAttempt)
    /\ mainPrograms' = mainPrograms \ {attempt}
    /\ UNCHANGED <<mainStdout, mainStderr, writes, snapshot, diagPc,
                   diagAttempt>>
    /\ DiagFrame

\* notifyFailure: with mail set up, the report reads the two writers
DiagNotifyFailure ==
    /\ diagPc = "failed"
    /\ diagPc' = "loop"
    /\ IF WillNotify
       THEN /\ snapshot' = [taken |-> TRUE,
                            stdout |-> Retrieve(mainStdout),
                            stderr |-> Retrieve(mainStderr),
                            writes |-> Len(writes),
                            attempt |-> diagAttempt]
            /\ mainStdout' = AfterRetrieve(mainStdout)
            /\ mainStderr' = AfterRetrieve(mainStderr)
       ELSE UNCHANGED <<snapshot, mainStdout, mainStderr>>
    /\ UNCHANGED <<writes, diagAttempt, mainPrograms>>
    /\ DiagFrame

NextDiag ==
    \/ DiagInitialise
    \/ \E feed \in FeedResults : DiagLaunch(feed)
    \/ \E attempt \in 1..MaxLaunches, stream \in Streams, n \in ChunkSizes :
          ChildWrite(attempt, stream, n)
    \/ \E waitErr \in {"nil", "Wait"} : DiagChildExit(waitErr)
    \/ \E attempt \in 1..MaxLaunches : DiagOrphanExit(attempt)
    \/ DiagNotifyFailure

SpecDiag == InitDiag /\ [][NextDiag]_vars

(***************************************************************************)
(* The SMTP daemon: StartAndBlock, Stop, and ServeSMTP for the connections *)
(* StartAndBlock accepts, one after the other.                             *)
(***************************************************************************)

\* what smtpConn.Next can return
Events ==
    { [What |-> "DONE"], [What |-> "ABORT"], [What |-> "TLSERROR"],
      [What |-> "COMMAND", Cmd |-> "MAILFROM", Arg |-> "from@example.com"],
      [What |-> "COMMAND", Cmd |-> "RCPTTO", Arg |-> "to@example.com"],
      [What |-> "COMMAND", Cmd |-> "NOOP", Arg |-> ""],
      [What |-> "GOTDATA", Arg |-> "mail"] }

InitSMTPD ==
    /\ Listener = "nil"
    /\ listener = "none"
    /\ smtpPc = "start"
    /\ stops = 0
    /\ stoppedWhileListening = FALSE
    /\ accepted = 0
    /\ processed = <<>>
    /\ InitServe
    /\ DaemonNames = <<>>
    /\ CLIFlags = <<>>
    /\ MailClientConfigured = FALSE
    /\ NotificationRecipients = <<>>
    /\ InitLocals
    /\ InitFilter
    /\ InitRestartIdle
    /\ InitDiagIdle

\* what the SMTP daemon leaves alone
SMTPFrame ==
    /\ UNCHANGED <<pc, nthAttempt, cliFlags, daemonNames>>
    /\ UNCHANGED config
    /\ UNCHANGED loopVars
    /\ UNCHANGED filterVars
    /\ UNCHANGED restartVars
    /\ UNCHANGED diagVars

\* StartAndBlock up to its loop: net.Listen
Listen(listenErr) ==
    /\ smtpPc = "start"
    /\ IF listenErr
       THEN /\ smtpPc' = "returned"
            /\ UNCHANGED listener
       ELSE /\ smtpPc' = "accept"
            /\ listener' = "open"
    /\ UNCHANGED <<Listener, stops, stoppedWhileListening, accepted,
                   processed>>
    /\ UNCHANGED serveVars
    /\ SMTPFrame

\* listener.Accept returns a connection, and ServeSMTP is started for it:
\* its declarations, and RateLimit.Add
Accept(rateOK) ==
    /\ smtpPc = "accept"
    /\ listener = "open"
    /\ servePc \in {"none", "done"}
    /\ accepted < MaxConns
    /\ accepted' = accepted + 1
    /\ servePc' = "loop"
    /\ rateLimitOK' = rateOK
    /\ numConversations' = 0
    /\ finishedNormally' = FALSE
    /\ finishReason' = ""
    /\ fromAddr' = ""
    /\ mailBody' = ""
    /\ toAddrs' = <<>>
    /\ UNCHANGED <<Listener, listener, smtpPc, stops, stoppedWhileListening,
                   processed>>
    /\ SMTPFrame

\* listener.Accept returns an error, as it does once the listener is
\* closed, and StartAndBlock returns
AcceptError ==
    /\ smtpPc = "accept"
    /\ smtpPc' = "returned"
    /\ UNCHANGED <<Listener, listener, stops, stoppedWhileListening,
                   accepted, processed>>
    /\ UNCHANGED serveVars
    /\ SMTPFrame

\* SMTPD.Stop
Stop ==
    /\ smtpPc # "idle"
    /\ stops < MaxStops
    /\ stops' = stops + 1
    /\ stoppedWhileListening' = (stoppedWhileListening \/ smtpPc = "accept")
    /\ listener' = IF Listener # "nil" THEN "closed" ELSE listener
    /\ UNCHANGED <<Listener, smtpPc, accepted, processed>>
    /\ UNCHANGED serveVars
    /\ SMTPFrame

\* conversationDone: ProcessMail(fromAddr, mailBody), the forwarding and the
\* feature commands, and the connection is closed
ConversationDone(reason, normal) ==
    /\ finishReason' = reason
    /\ finishedNormally' = normal
    /\ servePc' = "done"
    /\ processed' = Append(processed,
                         [fromAddr |-> fromAddr, mailBody |-> mailBody,
                          finishReason |-> reason])
    /\ UNCHANGED <<fromAddr, mailBody, toAddrs>>

\* one turn of the loop of ServeSMTP, smtpConn.Next returning ev
Converse(ev) ==
    /\ servePc = "loop"
    /\ numConversations < MaxConversationLength
    /\ IF ~rateLimitOK
       THEN /\ ConversationDone("rate limited", FALSE)
            /\ UNCHANGED numConversations
       ELSE CASE ev.What = "DONE" ->
                    /\ ConversationDone("finished normally", TRUE)
                    /\ UNCHANGED numConversations
              [] ev.What = "ABORT" ->
                    /\ ConversationDone("aborted", FALSE)
                    /\ UNCHANGED numConversations
              [] ev.What = "TLSERROR" ->
                    /\ ConversationDone("TLS error", FALSE)
                    /\ UNCHANGED numConversations
              [] ev.What = "COMMAND" ->
                    /\ fromAddr' = IF ev.Cmd = "MAILFROM" THEN ev.Arg
                                   ELSE fromAddr
                    /\ toAddrs' = IF ev.Cmd = "RCPTTO"
                                  THEN Append(toAddrs, ev.Arg) ELSE toAddrs
                    /\ numConversations' = numConversations + 1
                    /\ UNCHANGED <<servePc, finishedNormally, finishReason,
                                   mailBody, processed>>
              [] ev.What = "GOTDATA" ->
                    /\ mailBody' = ev.Arg
                    /\ numConversations' = numConversations + 1
                    /\ UNCHANGED <<servePc, finishedNormally, finishReason,
                                   fromAddr, toAddrs, processed>>
    /\ UNCHANGED <<Listener, listener, smtpPc, stops, stoppedWhileListening,
                   accepted, rateLimitOK>>
    /\ SMTPFrame

\* the loop of ServeSMTP ends because of MaxConversationLength
ConversationTooLong ==
    /\ servePc = "loop"
    /\ numConversations >= MaxConversationLength
    /\ ConversationDone(finishReason, finishedNormally)
    /\ UNCHANGED <<Listener, listener, smtpPc, stops, stoppedWhileListening,
                   accepted, rateLimitOK, numConversations>>
    /\ SMTPFrame

NextSMTPD ==
    \/ \E listenErr \in BOOLEAN : Listen(listenErr)
    \/ \E rateOK \in BOOLEAN : Accept(rateOK)
    \/ AcceptError
    \/ Stop
    \/ \E ev \in Events : Converse(ev)
    \/ ConversationTooLong

SpecSMTPD == InitSMTPD /\ [][NextSMTPD]_vars

----------------------------------------------------------------------------
(* What the properties speak of *)

IsFlag(t) == HasPrefix(t, "-")

\* the flag the i-th token of a well-formed flag list belongs to: the token
\* itself, or the flag right before its value
FlagOf(f, i) == IF IsFlag(f[i]) THEN f[i] ELSE IF i > 1 THEN f[i - 1] ELSE ""

\* the tokens of f at the positions K, in order
RECURSIVE Pick(_, _, _)
Pick(f, K, i) ==
    IF i > Len(f) THEN <<>>
    ELSE (IF i \in K THEN <<f[i]>> ELSE <<>>) \o Pick(f, K, i + 1)

\* f without the supervisor and daemons flags and their values
WithoutSupervisorAndDaemons(f) ==
    Pick(f, {i \in 1..Len(f) : /\ ~HasPrefix(FlagOf(f, i), "-supervisor")
                               /\ ~HasPrefix(FlagOf(f, i), "-daemons")}, 1)

\* the -config flag of f with its value
ConfigOnly(f) ==
    Pick(f, {i \in 1..Len(f) : HasPrefix(FlagOf(f, i), "-config")}, 1)

\* the flags GetLaunchParameters appends
Forced(daemons) == <<"-supervisor=false", "-daemons", Join(daemons, ",")>>

D == Len(DaemonNames)

Returned == pc = "returned"

----------------------------------------------------------------------------
(* C1 *)

\* the failure interval Start compared with FailureThresholdSec to get from
\* the latest outcome to the head of the loop
IntervalChecked ==
    IF slept THEN (now - StartAttemptIntervalSec) - lastAttemptTime
    ELSE now - lastAttemptTime

\* C1 as stated: whenever a launch fails or the child terminates, paramChoice
\* is incremented by exactly 1 if the time elapsed since lastAttemptTime is
\* less than FailureThresholdSec and is left unchanged otherwise.
C1_AsStated ==
    (pc = "loop" /\ err # "none") =>
        paramChoice = nthAttempt
                      + (IF IntervalChecked < FailureThresholdSec THEN 1 ELSE 0)

\* C1 amended: whenever a launch fails or the child terminates with an error,
\* paramChoice is incremented by exactly 1 if the time elapsed since
\* lastAttemptTime is less than FailureThresholdSec and is left unchanged if
\* it is at or above it; when the child exits without error paramChoice is
\* left unchanged whatever the elapsed time.
C1_Escalation ==
    /\ (pc = "loop" /\ err \notin {"none", "nil"}) =>
          /\ slept
          /\ paramChoice = nthAttempt
                + (IF (now - StartAttemptIntervalSec) - lastAttemptTime
                        < FailureThresholdSec THEN 1 ELSE 0)
    /\ (pc = "loop" /\ err = "nil") => paramChoice = nthAttempt

\* a crash exactly FailureThresholdSec after the launch, of a supervisor that
\* escalated before: the index stayed
C1_Witness ==
    /\ pc = "loop"
    /\ err = "Wait"
    /\ (now - StartAttemptIntervalSec) - lastAttemptTime = FailureThresholdSec
    /\ paramChoice = nthAttempt
    /\ paramChoice >= 1

----------------------------------------------------------------------------
(* C2 *)

\* C2: for every attempt index and every original flag list, the flags
\* returned by GetLaunchParameters contain exactly one token beginning with
\* "-supervisor", and that token is "-supervisor=false".
C2_OnlySupervisorFalse ==
    Returned =>
        /\ Cardinality({i \in 1..Len(cliFlags) :
                            HasPrefix(cliFlags[i], "-supervisor")}) = 1
        /\ \A i \in 1..Len(cliFlags) :
              HasPrefix(cliFlags[i], "-supervisor")
                  => cliFlags[i] = "-supervisor=false"

----------------------------------------------------------------------------
(* C3 *)

\* C3: for every attempt index, if the original flags contain the -config
\* flag with its path, the returned flags contain the -config flag
\* immediately followed by (or joined with) that same path.
C3_ConfigPreserved ==
    Returned =>
        \A i \in 1..Len(origFlags) :
            HasPrefix(origFlags[i], "-config") =>
                \E j \in 1..Len(cliFlags) :
                    /\ cliFlags[j] = origFlags[i]
                    /\ \/ Contains(origFlags[i], "=")
                       \/ /\ i + 1 <= Len(origFlags)
                          /\ j + 1 <= Len(cliFlags)
                          /\ cliFlags[j + 1] = origFlags[i + 1]

----------------------------------------------------------------------------
(* C4 *)

\* C4: for every attempt index above D+1, GetLaunchParameters returns every
\* original flag token other than the supervisor and daemons flags, in
\* original order, followed by -supervisor=false and the -daemons flag,
\* together with the full original service set.
C4_FullConfigurationRestored ==
    (Returned /\ nthAttempt > D + 1) =>
        /\ cliFlags = WithoutSupervisorAndDaemons(origFlags) \o Forced(DaemonNames)
        /\ daemonNames = DaemonNames

----------------------------------------------------------------------------
(* C5 *)

----------------------------------------------------------------------------
(* C6 *)

\* C6: for every attempt index a with 1 <= a <= D+1, the flags returned are
\* exactly the -config flag with its value, followed by -supervisor=false
\* and the -daemons flag with its value.
C6_EssentialFlagsOnly ==
    (Returned /\ nthAttempt >= 1 /\ nthAttempt <= D + 1) =>
        cliFlags = ConfigOnly(origFlags) \o Forced(daemonNames)

\* an advanced flag was on the command line and is gone
C6_Witness ==
    /\ Returned
    /\ nthAttempt = D + 1
    /\ origFlags = <<"-gomaxprocs", "8", "-config", "cfg.json">>
    /\ Len(cliFlags) = 5

----------------------------------------------------------------------------
(* C7 *)

\* C7: for every attempt index outside 2..D, GetLaunchParameters returns the
\* full initial service set in its configured order; at D+1 the result is the
\* full services with the config-only flags.
C7_FullServicesOutsideShedding ==
    (Returned /\ (nthAttempt < 2 \/ nthAttempt > D)) =>
        /\ daemonNames = DaemonNames
        /\ cliFlags[Len(cliFlags)] = Join(DaemonNames, ",")
        /\ nthAttempt = D + 1
              => cliFlags = ConfigOnly(origFlags) \o Forced(DaemonNames)

\* attempt D+1 of three daemons
C7_Witness ==
    /\ Returned
    /\ D = 3
    /\ nthAttempt = D + 1
    /\ Len(shedSequence) = 2
    /\ "-disableconflicts" \in Range(origFlags)

----------------------------------------------------------------------------
(* C8 *)

\* C8: at attempt index 0, GetLaunchParameters returns every original flag
\* token except the supervisor and daemons flags and their values, unchanged
\* and in original order, followed by -supervisor=false and the -daemons flag
\* carrying the full service set.
C8_FirstAttempt ==
    (Returned /\ nthAttempt = 0) =>
        /\ cliFlags = WithoutSupervisorAndDaemons(origFlags) \o Forced(DaemonNames)
        /\ daemonNames = DaemonNames

\* a command line with a supervisor flag and an advanced flag
C8_Witness ==
    /\ Returned
    /\ nthAttempt = 0
    /\ origFlags = <<"-supervisor=true", "-gomaxprocs", "8">>
    /\ D = 2

----------------------------------------------------------------------------
(* C9 *)

\* C9: every service of the initial set that is absent from ShedOrder, and
\* the auto-unlocking daemon in particular, is a member of every entry of
\* the shed ladder and of the service set GetLaunchParameters returns at
\* every attempt index.
C9_NeverShed ==
    pc \in {"initialised", "returned", "panicked"} =>
        \A d \in Range(DaemonNames) :
            (d = AutoUnlockName \/ d \notin Range(ShedOrder)) =>
                /\ \A k \in 1..Len(shedSequence) : d \in Range(shedSequence[k])
                /\ Returned => d \in Range(daemonNames)

\* a shedding attempt that keeps both services that are not in ShedOrder
C9_Witness ==
    /\ Returned
    /\ nthAttempt = 2
    /\ D = 3
    /\ daemonNames = <<AutoUnlockName, UnknownName>>

----------------------------------------------------------------------------
(* C10 *)

\* C10 as stated: a clean exit of the child is handled like a crash: before
\* the relaunch the supervisor has sent the failure notification, applied
\* the escalation rule and slept the inter-attempt interval.
C10_AsStated ==
    (pc = "loop" /\ err = "nil") => (notified /\ slept)

\* C10 amended: a clean exit of the child is not handled like a crash: the
\* supervisor goes straight to the next launch, with no failure notification,
\* no change of the attempt index and no inter-attempt sleep.
C10_CleanExitRelaunch ==
    err = "nil" =>
        /\ pc = "loop"
        /\ ~notified
        /\ ~slept
        /\ paramChoice = nthAttempt

\* a clean exit within the failure interval, with mail set up
C10_Witness ==
    /\ err = "nil"
    /\ pc = "loop"
    /\ now - lastAttemptTime < FailureThresholdSec
    /\ now > lastAttemptTime
    /\ WillNotify

----------------------------------------------------------------------------
(* C11 *)

\* C11 as stated: every outcome of an attempt, a clean exit of the child
\* included, is followed by the inter-attempt sleep before the next spawn.
C11_AsStated ==
    (pc = "loop" /\ err # "none") => slept

\* C11 amended: a failed spawn, a failed delivery of the password and an
\* exit of the child with an error are followed by the inter-attempt sleep
\* before the next spawn, whether or not the attempt index was incremented;
\* a clean exit of the child is followed by the next spawn with no sleep.
C11_SleepAfterFailure ==
    /\ (pc = "loop" /\ err \notin {"none", "nil"}) => slept
    /\ (pc = "loop" /\ err = "nil") => ~slept

\* a crash after the failure interval: the index stays and the sleep is taken
C11_Witness ==
    /\ pc = "loop"
    /\ err = "Wait"
    /\ slept
    /\ paramChoice = nthAttempt
    /\ now - lastAttemptTime >= FailureThresholdSec + StartAttemptIntervalSec

----------------------------------------------------------------------------
(* C12 *)

\* C12: at most one main program started by the supervisor is alive at any
\* time, also when the password could not be fed to a started main program.
C12_OneChildAtATime ==
    children <= 1

----------------------------------------------------------------------------
(* C13 *)

\* C13: when a failure has been handled, a mail was handed to
\* MailClient.Send if and only if the mail client is configured and there
\* is at least one recipient; either way Start is at the escalation
\* decision next.
C13_SendIffConfigured ==
    (notified /\ pc # "panicked") =>
        /\ sent <=> (MailClientConfigured /\ NotificationRecipients # <<>>)
        /\ pc \in {"escalate", "loop"}

\* a failure handled with a configured mail client and no recipient
C13_Witness ==
    /\ pc = "escalate"
    /\ err = "Start"
    /\ MailClientConfigured
    /\ NotificationRecipients = <<>>
    /\ ~sent

----------------------------------------------------------------------------
(* C14 *)

\* C14: the report sent for an attempt carries the error of that attempt
\* and the flags its main program was launched with, which are what
\* GetLaunchParameters returns for the index of the attempt, also after
\* the index was incremented.
C14_ReportOfTheAttempt ==
    sent =>
        /\ report.launchErr = err
        /\ report.cliFlags = cliFlags
        /\ report.cliFlags = GetLaunchParameters(nthAttempt).cliFlags

\* a report of the second attempt, read after the index moved on to the third
C14_Witness ==
    /\ sent
    /\ pc = "loop"
    /\ nthAttempt = 1
    /\ paramChoice = 2
    /\ report.launchErr = "Wait"
    /\ GetLaunchParameters(1).cliFlags # GetLaunchParameters(2).cliFlags

----------------------------------------------------------------------------
(* C15 *)

\* C15: a failure to send the notification does not stop the loop: after it
\* Start takes the escalation decision, by the same rule and from the same
\* last-attempt time, sleeps the inter-attempt interval and is back at the
\* head of the loop.
C15_SendFailureIgnored ==
    [][ /\ (pc = "failed" /\ pc' # pc /\ sent' /\ report'.sendErr) =>
              /\ pc' = "escalate"
              /\ paramChoice' = paramChoice
              /\ lastAttemptTime' = lastAttemptTime
        /\ (pc = "escalate" /\ pc' # pc /\ sent /\ report.sendErr) =>
              /\ pc' = "loop"
              /\ paramChoice' = IF now - lastAttemptTime < FailureThresholdSec
                                THEN paramChoice + 1 ELSE paramChoice
              /\ now' = now + StartAttemptIntervalSec
              /\ lastAttemptTime' = lastAttemptTime ]_vars

\* back at the head of the loop after a report that could not be sent
C15_Witness ==
    /\ pc = "loop"
    /\ sent
    /\ report.sendErr
    /\ slept
    /\ err = "Wait"
    /\ paramChoice = nthAttempt + 1

----------------------------------------------------------------------------
(* C16 *)

\* C16: Start is over only when os.Executable failed, and then no main
\* program was started and no notification was sent.
C16_OnlyExecutableError ==
    pc \in {"aborted", "panicked"} =>
        /\ pc = "aborted"
        /\ nthAttempt = -1
        /\ children = 0
        /\ ~report.sent

----------------------------------------------------------------------------
(* C17, C18: RemoveFromFlags on well-formed flag lists *)

\* every token that is not a flag comes right after a flag without "="
WellFormed(f) ==
    \A i \in 1..Len(f) :
        ~IsFlag(f[i]) => i > 1 /\ IsFlag(f[i - 1]) /\ ~Contains(f[i - 1], "=")

Filtered == pc = "filtered"

\* the positions of the flags of f the condition holds of
RemovedFlags(f) ==
    {i \in 1..Len(f) : IsFlag(f[i]) /\ Condition(condition, f[i])}

\* the positions of the values of f that come right after such a flag
ValuesOfRemovedFlags(f) ==
    {i \in 2..Len(f) : ~IsFlag(f[i]) /\ (i - 1) \in RemovedFlags(f)}

\* C17: for a well-formed flag list, the result of RemoveFromFlags has no
\* flag the condition holds of, and besides those flags it lacks exactly the
\* values that follow them, which are the values of removed flags in
\* separated form; after a removed flag in joined form no token is consumed.
C17_MatchingFlagsRemoved ==
    (Filtered /\ WellFormed(flagsArg)) =>
        /\ \A j \in 1..Len(ret) :
              ~(IsFlag(ret[j]) /\ Condition(condition, ret[j]))
        /\ Len(ret) = Len(flagsArg) - Cardinality(RemovedFlags(flagsArg))
                        - Cardinality(ValuesOfRemovedFlags(flagsArg))
        /\ \A i \in RemovedFlags(flagsArg) :
              (Contains(flagsArg[i], "=") /\ i < Len(flagsArg)
                 /\ (i + 1) \notin RemovedFlags(flagsArg)) =>
                  \E j \in 1..Len(ret) : ret[j] = flagsArg[i + 1]

\* a separated and a joined daemons flag removed around a kept flag
C17_Witness ==
    /\ Filtered
    /\ flagsArg = <<"-daemons", "v", "-daemons=b", "-config=a">>
    /\ condition = "daemons"
    /\ ret = <<"-config=a">>

\* C18: for a well-formed flag list, the result of RemoveFromFlags is the
\* input restricted to the flags the condition does not hold of and the
\* values that follow them, in the order of the input; the input is as it
\* was.
C18_OthersKeptInOrder ==
    (Filtered /\ WellFormed(flagsArg)) =>
        ret = Pick(flagsArg,
                   {i \in 1..Len(flagsArg) :
                       ~Condition(condition, FlagOf(flagsArg, i))}, 1)

\* two flags with values, the second one removed
C18_Witness ==
    /\ Filtered
    /\ flagsArg = <<"-config", "v", "-daemons", "v">>
    /\ condition = "tokens"
    /\ condTokens = {"-daemons"}
    /\ ret = <<"-config", "v">>

----------------------------------------------------------------------------
(* C19, C20: the shed ladder *)

Initialised == pc \in {"initialised", "returned", "panicked"}

\* C19: after initialise, every entry of the shed ladder is a non-empty
\* strict subset of the entry before it (of the initial services for the
\* first entry) with exactly one member fewer, and the ladder has at most
\* D-1 entries.
C19_LadderShrinksByOne ==
    Initialised =>
        /\ \A k \in 1..Len(shedSequence) :
              LET prev == IF k = 1 THEN DaemonNames ELSE shedSequence[k - 1]
                  this == shedSequence[k]
              IN /\ Len(this) >= 1
                 /\ Range(this) \subseteq Range(prev)
                 /\ Range(this) # Range(prev)
                 /\ Cardinality(Range(this)) = Cardinality(Range(prev)) - 1
                 /\ Len(this) = Cardinality(Range(this))
        /\ Len(shedSequence) <= D - 1

\* three services, two of them shed one after the other
C19_Witness ==
    /\ pc = "initialised"
    /\ DaemonNames = <<DNSDName, MaintenanceName, AutoUnlockName>>
    /\ Len(shedSequence) = 2
    /\ shedSequence[2] = <<AutoUnlockName>>

\* the members of ShedOrder that are among the initial services, in
\* ShedOrder's order
Present == SelectSeq(ShedOrder, LAMBDA d : d \in Range(DaemonNames))

\* C20: the i-th entry of the shed ladder, counted from 1, is the initial
\* service list without the first i members of ShedOrder that are among the
\* initial services, the others in their configured order; members of
\* ShedOrder that are not among the services add no entry, and the ladder
\* ends when one service remains.
C20_ShedInPriorityOrder ==
    Initialised =>
        /\ \A i \in 1..Len(shedSequence) :
              /\ i <= Len(Present)
              /\ shedSequence[i] =
                    SelectSeq(DaemonNames,
                              LAMBDA d : d \notin {Present[j] : j \in 1..i})
        /\ Len(shedSequence) =
              IF Len(Present) < D - 1 THEN Len(Present) ELSE D - 1

\* two services of ShedOrder, configured against its order: the first in
\* ShedOrder is shed, the second one is the last service and stays
C20_Witness ==
    /\ pc = "initialised"
    /\ DaemonNames = <<DNSDName, MaintenanceName>>
    /\ shedSequence = << <<DNSDName>> >>

----------------------------------------------------------------------------
(* C21 *)

\* C21: whatever calls of GetLaunchParameters came before, the flags, the
\* services and the shed ladder of the supervisor are as initialise left
\* them, and what a call returned is what GetLaunchParameters gives for its
\* index from these: two calls with one index return the same.
C21_CallsLeaveSupervisorAlone ==
    Returned =>
        /\ CLIFlags = RemoveFromFlags("daemons", origFlags)
        /\ shedSequence = BuildShedSequence(DaemonNames)
        /\ cliFlags = GetLaunchParameters(nthAttempt).cliFlags
        /\ daemonNames = GetLaunchParameters(nthAttempt).daemonNames

\* a shedding call, which returns an entry of the ladder itself
C21_Witness ==
    /\ Returned
    /\ nthAttempt = 2
    /\ D = 3
    /\ Len(shedSequence) = 2
    /\ daemonNames = shedSequence[1]
    /\ origFlags # <<>>

----------------------------------------------------------------------------
(* C22 *)

\* C22: the flags GetLaunchParameters returns end with "-supervisor=false",
\* "-daemons" and the returned services joined by commas in their order,
\* and no token before these begins with "-daemons".
C22_ForcedTail ==
    Returned =>
        LET n == Len(cliFlags)
        IN /\ n >= 3
           /\ cliFlags[n - 2] = "-supervisor=false"
           /\ cliFlags[n - 1] = "-daemons"
           /\ cliFlags[n] = Join(daemonNames, ",")
           /\ \A i \in 1..(n - 2) : ~HasPrefix(cliFlags[i], "-daemons")

\* a first attempt of a supervisor started with a daemons flag and one more
C22_Witness ==
    /\ Returned
    /\ nthAttempt = 0
    /\ D = 2
    /\ Len(origFlags) = 4
    /\ origFlags[1] = "-daemons"
    /\ Len(cliFlags) = 5

----------------------------------------------------------------------------
(* C23 *)

\* C23: once an attempt has had its outcome, Start is at a step of the loop
\* from which the next spawn follows: it has not stopped relaunching.
C23_KeepsRelaunching ==
    err # "none" => pc \in {"loop", "wait", "failed", "escalate"}

----------------------------------------------------------------------------
(* C24 *)

\* C24: a launch made with an index above D+1 uses all the initial
\* services, and so does every launch after it, whose index is above D+1
\* too.
C24_BaselineForever ==
    /\ [](nthAttempt > D + 1 => daemonNames = DaemonNames)
    /\ [][nthAttempt > D + 1 =>
             /\ nthAttempt' > D + 1
             /\ daemonNames' = DaemonNames
             /\ pc' # "panicked"]_vars

\* with three services, a second launch after the shedding is over
C24_Witness ==
    /\ D = 3
    /\ nthAttempt = D + 3
    /\ pc = "wait"
    /\ daemonNames = DaemonNames

----------------------------------------------------------------------------
(* C25, C26: AutoRestart *)

ReturnedFromRestart == restartPc = "returned"

\* C25: AutoRestart calls the function again after each error, having
\* slept 0 seconds after the first error, 10 after the second and 20 after
\* the third; it never calls the function again after a nil, and without a
\* lock-down it returns only after a nil.
C25_RestartsWithGrowingDelay ==
    /\ Len(waited) >= 1 => waited[1] = 0
    /\ Len(waited) >= 2 => waited[2] = 10
    /\ Len(waited) >= 3 => waited[3] = 20
    /\ \A k \in 2..Len(waited) : waited[k] > waited[k - 1]
    /\ \A j \in 1..(sampleRound - 1) : sampleFun[j] = "err"
    /\ restartPc = "head" => Len(waited) = sampleRound
    /\ (ReturnedFromRestart /\ ~EmergencyLockDown) =>
           sampleFun[sampleRound] = "nil"

\* the function of TestAutoRestart: three errors, then nil
C25_Witness ==
    /\ ReturnedFromRestart
    /\ ~EmergencyLockDown
    /\ sampleRound = 4
    /\ waited = <<0, 10, 20>>

\* C26: once the emergency lock-down is on, AutoRestart does not call the
\* function again, and from the head of its loop it returns.
C26_LockDownStopsRestart ==
    /\ [][EmergencyLockDown => sampleRound' = sampleRound]_vars
    /\ [][(EmergencyLockDown /\ restartPc = "head" /\ restartPc' # restartPc)
             => restartPc' = "returned"]_vars

\* a function that returned two errors, and AutoRestart back at its caller
C26_Witness ==
    /\ ReturnedFromRestart
    /\ EmergencyLockDown
    /\ sampleRound = 2
    /\ sampleFun[1] = "err"
    /\ sampleFun[2] = "err"

----------------------------------------------------------------------------
(* C27 *)

\* C27: paramChoice is 0 at the first launch, a step of Start leaves it as
\* it is or adds 1 to it, it is at most 1 above the index of the latest
\* launch, and the step that adds 1 is the escalation decision after a
\* failed launch or a crash.
C27_IndexOnlyGrowsOnFailure ==
    /\ [](nthAttempt = -1 => paramChoice = 0)
    /\ [](nthAttempt >= 0 => paramChoice \in {nthAttempt, nthAttempt + 1})
    /\ [][/\ paramChoice' \in {paramChoice, paramChoice + 1}
          /\ paramChoice' # paramChoice =>
                /\ pc = "escalate"
                /\ err \in {"StdinPipe", "Start", "Write", "Close", "Wait"}]_vars

\* the index raised a third time, the launches before it made with 0, 1, 2
C27_Witness ==
    /\ pc = "loop"
    /\ nthAttempt = 2
    /\ paramChoice = 3
    /\ err = "Wait"

----------------------------------------------------------------------------
(* C28 *)

\* the position of the latest flag of f before position i, 0 if there is none
LastFlagBefore(f, i) ==
    LET before == {j \in 1..(i - 1) : IsFlag(f[j])}
    IN IF before = {} THEN 0 ELSE CHOOSE j \in before : \A k \in before : k <= j

\* the flag at position j of f was removed
Removed(f, j) == Condition(condition, f[j])

\* the flag at position j of f is in joined form
Joined(f, j) == Contains(f[j], "=")

\* the positions of f the claim as stated retains
RetainedAsStated(f) ==
    {i \in 1..Len(f) :
        IF IsFlag(f[i]) THEN ~Removed(f, i)
        ELSE LET j == LastFlagBefore(f, i)
             IN j > 0 /\ \/ ~Removed(f, j) /\ ~Joined(f, j)
                         \/ Removed(f, j) /\ Joined(f, j)}

\* the positions of f RemoveFromFlags retains
Retained(f) ==
    {i \in 1..Len(f) :
        IF IsFlag(f[i]) THEN ~Removed(f, i)
        ELSE LET j == LastFlagBefore(f, i)
             IN j > 0 /\ \/ ~Removed(f, j)
                         \/ Removed(f, j) /\ Joined(f, j)}

\* C28 as stated: for any token list, RemoveFromFlags retains a token that
\* is not a flag exactly when the latest flag before it was kept and is not
\* in joined form, or was removed and is in joined form; so it drops one
\* that follows a kept flag in joined form.
C28_AsStated ==
    Filtered => ret = Pick(flagsArg, RetainedAsStated(flagsArg), 1)

\* C28 amended: for any token list, RemoveFromFlags retains a token that is
\* not a flag exactly when the latest flag before it was kept, in
\* separated or in joined form, or was removed and is in joined form; so
\* it retains one that follows a kept flag in joined form, and drops one
\* with no flag before it or after a removed flag in separated form.
C28_ValueRetained ==
    Filtered => ret = Pick(flagsArg, Retained(flagsArg), 1)

\* a token after a kept flag in joined form, and one after a removed one
C28_Witness ==
    /\ Filtered
    /\ flagsArg = <<"-config=a", "v", "-daemons=b", "v">>
    /\ condition = "daemons"
    /\ ret = <<"-config=a", "v", "v">>

----------------------------------------------------------------------------
(* C29 *)

\* C29: a launch that fails at the spawn or at the delivery of the
\* password leaves lastAttemptTime as it is; lastAttemptTime is written
\* only by a launch whose spawn and delivery succeeded, with the time of
\* that launch.
C29_AttemptTimeOfSuccessfulLaunch ==
    /\ [][(pc = "loop" /\ pc' = "failed") =>
              lastAttemptTime' = lastAttemptTime]_vars
    /\ [][lastAttemptTime' # lastAttemptTime =>
              /\ pc = "loop"
              /\ pc' = "wait"
              /\ lastAttemptTime' = now]_vars
    /\ [](pc = "wait" => lastAttemptTime = now)

\* a failed delivery, later than a launch that had succeeded
C29_Witness ==
    /\ pc = "failed"
    /\ err = "Write"
    /\ lastAttemptTime > 0
    /\ now > lastAttemptTime

----------------------------------------------------------------------------
(* C30 *)

\* C30: while Start waits for the main program, what was done on its
\* standard input is: pipe opened, program started, the password and one
\* line break written, pipe closed, in this order; when one of the steps
\* fails, the steps after it are not done and Start is on its failure path
\* with that error.
C30_PasswordFedInOrder ==
    /\ pc = "wait" =>
          feedTrace = << [op |-> "StdinPipe", data |-> ""],
                         [op |-> "Start", data |-> ""],
                         [op |-> "Write", data |-> "secret\n"],
                         [op |-> "Close", data |-> ""] >>
    /\ \A k \in 1..Len(feedTrace) :
          feedTrace[k].op = <<"StdinPipe", "Start", "Write", "Close">>[k]
    /\ (nthAttempt >= 0 /\ pc # "panicked" /\ Len(feedTrace) < 4) =>
          /\ err = <<"StdinPipe", "Start", "Write", "Close">>[Len(feedTrace) + 1]
          /\ pc \in {"failed", "escalate", "loop"}
          /\ pc = "loop" => notified

\* stdin.Close failed after the password was written
C30_Witness ==
    /\ pc = "failed"
    /\ err = "Close"
    /\ Len(feedTrace) = 3
    /\ feedTrace[3].data = "secret\n"

----------------------------------------------------------------------------
(* C33 *)

\* C33: for initial services of distinct names, the shed ladder has at
\* least D-1 entries, so that no call of GetLaunchParameters ends in an
\* index out of range.
C33_LadderEntryExists ==
    Initialised =>
        /\ Len(shedSequence) >= D - 1
        /\ pc # "panicked"

----------------------------------------------------------------------------
(* C31 *)

\* C31: when notifyFailure has read the two buffers for a report, no main
\* program started by the supervisor is alive (one that is alive right
\* after the report was alive when the buffers were read).
C31_SnapshotWithoutChild ==
    (pc = "escalate" /\ sent) => children = 0

(* C32 *)
RECURSIVE StreamBytes(_, _)
\* the bytes of the first k writes that went to stream, in the order written
StreamBytes(stream, k) ==
    IF k = 0 THEN <<>>
    ELSE StreamBytes(stream, k - 1)
             \o (IF writes[k].stream = stream THEN writes[k].p ELSE <<>>)

RECURSIVE Normal(_)
\* s with every two runs joined that follow each other without a gap
Normal(s) ==
    IF Len(s) < 2 THEN s
    ELSE LET rest == Normal(Tail(s))
         IN IF Head(s)[2] + 1 = Head(rest)[1]
            THEN << <<Head(s)[1], Head(rest)[2]>> >> \o Tail(rest)
            ELSE <<Head(s)>> \o rest

\* r holds the most recent bytes of all, as many as the capacity allows:
\* all is some bytes, no longer retained, followed by r
MostRecentOf(r, all) ==
    /\ NumBytes(r) = (IF NumBytes(all) < MemoriseOutputCapacity
                      THEN NumBytes(all) ELSE MemoriseOutputCapacity)
    /\ Normal(TakeBytes(all, NumBytes(all) - NumBytes(r)) \o r) = Normal(all)

WritersMade == diagPc \notin {"idle", "start"}

\* C32: after any sequence of writes, a writer retains the most recent
\* min(total, MemoriseOutputCapacity) bytes written to it, and every byte
\* written to it has been forwarded, unmodified and in order.
C32_RetainsMostRecent ==
    WritersMade =>
        /\ MostRecentOf(Retrieve(mainStdout), StreamBytes("stdout", Len(writes)))
        /\ MostRecentOf(Retrieve(mainStderr), StreamBytes("stderr", Len(writes)))
        /\ mainStdout.destination = StreamBytes("stdout", Len(writes))
        /\ mainStderr.destination = StreamBytes("stderr", Len(writes))

\* more than the capacity has been written to stdout, in several writes,
\* the last of them of one byte
C32_Witness ==
    /\ WritersMade
    /\ Len(writes) = MaxWrites
    /\ NumBytes(StreamBytes("stdout", Len(writes))) > MemoriseOutputCapacity
    /\ \A k \in 1..Len(writes) : writes[k].stream = "stdout"
    /\ NumBytes(writes[Len(writes)].p) = 1

(* C34 *)
\* the byte b is among the bytes of s
HoldsByte(s, b) == \E i \in 1..Len(s) : s[i][1] <= b /\ b <= s[i][2]

\* C34: the two writers are made once and are emptied neither when a main
\* program is started nor when a report reads them: what a report has read
\* are the most recent bytes of all that any main program has written since
\* initialise, and the writers still hold them after the read.
C34_SnapshotSpansAttempts ==
    snapshot.taken =>
        /\ MostRecentOf(snapshot.stdout, StreamBytes("stdout", snapshot.writes))
        /\ MostRecentOf(snapshot.stderr, StreamBytes("stderr", snapshot.writes))
        /\ Len(writes) = snapshot.writes =>
              /\ Retrieve(mainStdout) = snapshot.stdout
              /\ Retrieve(mainStderr) = snapshot.stderr

\* the report of the second attempt has read a byte that the main program
\* of the first attempt wrote, and that main program is gone
C34_Witness ==
    /\ snapshot.taken
    /\ snapshot.attempt = 2
    /\ 1 \notin mainPrograms
    /\ \E k \in 1..snapshot.writes :
          /\ writes[k].attempt = 1
          /\ writes[k].stream = "stderr"
          /\ HoldsByte(snapshot.stderr, writes[k].p[1][2])

(* C35 *)
\* C35: ServeSMTP hands a mail to ProcessMail, to be forwarded and searched
\* for commands, only when the conversation finished normally; nothing is
\* handed on for a connection that was rate limited, aborted, failed in TLS
\* or went on for MaxConversationLength events.
C35_ProcessedOnlyWhenNormal ==
    \A i \in 1..Len(processed) :
        processed[i].finishReason = "finished normally"

(* C36 *)
\* C36: once StartAndBlock listens, a call of Stop closes the listener (so
\* that Accept fails and StartAndBlock returns).
C36_StopClosesListener ==
    stoppedWhileListening => listener = "closed"
====
